---------------------------- MODULE Spec2Model ----------------------------
(***************************************************************************)
(* TrueEye Reports gateway (src/reports/main.py): the POST /analyze        *)
(* handler, the GET /health handler, the event loop that runs them, and    *)
(* the recursive text extractor _extract_text_from_response.               *)
(*                                                                         *)
(* String literals of the source that hold non-ASCII characters (emoji,    *)
(* accented letters) are written here without them.                        *)
(***************************************************************************)
EXTENDS Integers, Sequences, FiniteSets, TLC

(***************************************************************************)
(* Bounds of the model.                                                    *)
(***************************************************************************)
\* Number of client requests (POST /analyze or GET /health) in one run.
NumRequests == 2
\* Largest JSON value handed to the extractor, in nodes (see Size).
MaxNodes == 5

(***************************************************************************)
(* JSON values, as resp.json() builds them: Python str, None, int, list    *)
(* and dict.  A dict keeps its pairs in insertion order, which is the      *)
(* order data.values() iterates in.                                        *)
(***************************************************************************)
None == [t |-> "null"]
Str(s) == [t |-> "str", s |-> s]
Num(n) == [t |-> "num", n |-> n]
List(items) == [t |-> "list", items |-> items]
Dict(pairs) == [t |-> "dict", pairs |-> pairs]
Pair(k, v) == [k |-> k, v |-> v]

\* Python truthiness of an Optional[str]: None and "" are falsy.
Truthy(v) == v.t = "str" /\ v.s # ""

\* The candidate keys with the first two in the wrong order.
PriorityKeysSwapped == <<"result", "outputs", "message", "text", "content">>

\* The tuple the for loop of line 87 iterates over.
PriorityKeys == <<"outputs", "result", "message", "text", "content">>

\* data.get(key): the value stored under key, None when the key is absent.
DictGet(data, key) ==
  IF \E i \in 1..Len(data.pairs) : data.pairs[i].k = key
  THEN data.pairs[CHOOSE i \in 1..Len(data.pairs) : data.pairs[i].k = key].v
  ELSE None

\* The values of a mapping in the reverse of its own order.
DictValuesReversed(data) ==
  [i \in 1..Len(data.pairs) |-> data.pairs[Len(data.pairs) + 1 - i].v]

\* data.values(): the values in the mapping's own (insertion) order.
DictValues(data) == [i \in 1..Len(data.pairs) |-> data.pairs[i].v]

\* A loop that ended without executing a return statement.
NoReturn == [t |-> "noreturn"]

RECURSIVE extract_text_from_response(_)
RECURSIVE PriorityLoop(_, _)
RECURSIVE ValuesLoop(_, _)

\* Lines 87-94: the loop over the priority keys, from the i-th key on.
PriorityLoop(data, i) ==
  IF i > Len(PriorityKeys) THEN NoReturn
  ELSE LET val == DictGet(data, PriorityKeys[i]) IN
       IF val.t = "str" THEN val
       ELSE IF val # None
            THEN LET nested == extract_text_from_response(val) IN
                 IF Truthy(nested) THEN nested ELSE PriorityLoop(data, i + 1)
            ELSE PriorityLoop(data, i + 1)

\* Lines 95-98 and 100-103: the loop over a sequence of values, from the
\* i-th value on.
ValuesLoop(vals, i) ==
  IF i > Len(vals) THEN NoReturn
  ELSE LET nested == extract_text_from_response(vals[i]) IN
       IF Truthy(nested) THEN nested ELSE ValuesLoop(vals, i + 1)

\* Lines 83-104: _extract_text_from_response.
extract_text_from_response(data) ==
  IF data.t = "str" THEN data
  ELSE LET inDict == IF data.t = "dict"
                     THEN LET p == PriorityLoop(data, 1) IN
                          IF p # NoReturn THEN p
                          ELSE ValuesLoop(DictValues(data), 1)
                     ELSE NoReturn
       IN IF inDict # NoReturn THEN inDict
          ELSE LET inList == IF data.t = "list"
                             THEN ValuesLoop(data.items, 1)
                             ELSE NoReturn
               IN IF inList # NoReturn THEN inList ELSE None

(***************************************************************************)
(* The bounded set of extractor inputs: every JSON value of at most        *)
(* MaxNodes nodes over the atoms and keys below.                           *)
(***************************************************************************)
InputStrings == {"", "a", "b"}
InputKeys == {"outputs", "result", "message", "text", "content", "foo", "bar"}
Atoms == {None, Num(1)} \cup {Str(s) : s \in InputStrings}

RECURSIVE Size(_)
RECURSIVE SumSizes(_, _)
SumSizes(vals, i) == IF i > Len(vals) THEN 0 ELSE Size(vals[i]) + SumSizes(vals, i + 1)
\* Nodes of a value: one per atom, list and dict, one more per dict key.
Size(v) ==
  IF v.t = "list" THEN 1 + SumSizes(v.items, 1)
  ELSE IF v.t = "dict" THEN 1 + Len(v.pairs) + SumSizes(DictValues(v), 1)
  ELSE 1

RECURSIVE ItemSeqs(_, _)
RECURSIVE PairSeqs(_, _, _)
RECURSIVE SizeTable(_)
\* Sequences of values whose sizes add up to total; tab[s] holds the values
\* of size s.
ItemSeqs(tab, total) ==
  IF total = 0 THEN {<<>>}
  ELSE UNION { { <<v>> \o rest : v \in tab[s], rest \in ItemSeqs(tab, total - s) }
               : s \in 1..total }
\* Sequences of pairs with distinct keys outside used, whose keys and values
\* add up to total nodes.
PairSeqs(tab, total, used) ==
  IF total = 0 THEN {<<>>}
  ELSE UNION { UNION { { <<Pair(k, v)>> \o rest :
                           v \in tab[s],
                           rest \in PairSeqs(tab, total - s - 1, used \cup {k}) }
                       : k \in InputKeys \ used }
               : s \in 1..(total - 1) }
\* The values of size n, given those of every smaller size.
ValuesOfSize(tab, n) ==
  (IF n = 1 THEN Atoms ELSE {})
    \cup { List(items) : items \in ItemSeqs(tab, n - 1) }
    \cup { Dict(pairs) : pairs \in PairSeqs(tab, n - 1, {}) }
\* <<values of size 1, ..., values of size n>>.
SizeTable(n) ==
  IF n = 0 THEN <<>>
  ELSE LET tab == SizeTable(n - 1) IN Append(tab, ValuesOfSize(tab, n))
\* The values that can sit inside a container of at most MaxNodes nodes.
InnerValues == SizeTable(MaxNodes - 1)

\* v is a JSON value of at most MaxNodes nodes: an atom, a list or a dict whose
\* first member takes s nodes and whose other members take at most what is left.
IsJsonInput(v) ==
  \/ v \in Atoms
  \/ v \in {List(<<>>), Dict(<<>>)}
  \/ \E s \in 1..(MaxNodes - 1) : \E first \in InnerValues[s] :
       \E left \in 0..(MaxNodes - 1 - s) : \E rest \in ItemSeqs(InnerValues, left) :
         v = List(<<first>> \o rest)
  \/ \E s \in 1..(MaxNodes - 2) : \E first \in InnerValues[s] : \E k \in InputKeys :
       \E left \in 0..(MaxNodes - 2 - s) : \E rest \in PairSeqs(InnerValues, left, {k}) :
         v = Dict(<<Pair(k, first)>> \o rest)

\* The example payloads of the documentation (spec section 8).
Examples ==
  { Str("Fake news detected"),
    Dict(<<Pair("outputs", Str("hello")), Pair("foo", Str("bar")), Pair("text", Str("other"))>>),
    Dict(<<Pair("foo", Str("bar")), Pair("result", Dict(<<Pair("text", Str("nested"))>>))>>),
    Dict(<<Pair("a", Num(1)), Pair("b", Dict(<<Pair("text", Str("found"))>>))>>),
    Dict(<<Pair("a", Num(1)), Pair("b", List(<<Num(2), Num(3)>>))>>),
    Dict(<<Pair("result", Str("Fake news detected"))>>) }

(***************************************************************************)
(* Startup configuration (lines 25-30): both values are set, or the module *)
(* raises RuntimeError and no request is ever served.                      *)
(***************************************************************************)
FLOW_API_URL == "https://flow.example/api/v1/run"
API_KEY == "secret-key"
\* timeout=300 of the call of line 129.
FlowTimeout == 300

(***************************************************************************)
(* The exceptions the try block of analyze can raise, each with the        *)
(* classes an except clause matches it under (its class and its bases).    *)
(* ConnectTimeout derives from both ConnectionError and Timeout.  A JSON   *)
(* decoding failure of resp.json() is requests.exceptions.JSONDecodeError, *)
(* a RequestException, from requests 2.27 on, and a plain ValueError       *)
(* (json.JSONDecodeError) before; the repository pins no version.          *)
(***************************************************************************)
RequestsVersions == {"before_2_27", "from_2_27"}

Ancestors(cls) ==
  CASE cls = "ConnectTimeout" ->
         {"ConnectTimeout", "ConnectionError", "Timeout", "RequestException", "Exception"}
    [] cls = "ReadTimeout" -> {"ReadTimeout", "Timeout", "RequestException", "Exception"}
    [] cls = "ConnectionError" -> {"ConnectionError", "RequestException", "Exception"}
    [] cls = "TooManyRedirects" -> {"TooManyRedirects", "RequestException", "Exception"}
    [] cls = "HTTPError" -> {"HTTPError", "RequestException", "Exception"}
    [] cls = "RequestsJSONDecodeError" ->
         {"RequestsJSONDecodeError", "InvalidJSONError", "RequestException",
          "ValueError", "Exception"}
    [] cls = "ValueError" -> {"ValueError", "Exception"}
    [] cls = "RuntimeError" -> {"RuntimeError", "Exception"}

\* What requests.post can raise instead of returning a response.
PostExceptions ==
  {"ConnectTimeout", "ReadTimeout", "ConnectionError", "TooManyRedirects", "RuntimeError"}

\* str(e) of an exception raised without a response.
Message(cls) ==
  CASE cls \in {"RequestsJSONDecodeError", "ValueError"} ->
         "Expecting value: line 1 column 1 (char 0)"
    [] OTHER -> cls

(***************************************************************************)
(* What the Flow can answer: a status code and a body text.  ParseJson is  *)
(* resp.json() on these body texts; Invalid marks a body json cannot       *)
(* decode.                                                                 *)
(***************************************************************************)
StatusCodes == {101, 200, 201, 304, 404, 500}

Invalid == [t |-> "invalid"]

BodyTexts ==
  { "{\"result\": \"Fake news detected\"}",
    "{\"a\": 1, \"b\": [2, 3]}",
    "{\"outputs\": \"\"}",
    "<html>Bad Gateway</html>" }

ParseJson(text) ==
  CASE text = "{\"result\": \"Fake news detected\"}" ->
         Dict(<<Pair("result", Str("Fake news detected"))>>)
    [] text = "{\"a\": 1, \"b\": [2, 3]}" ->
         Dict(<<Pair("a", Num(1)), Pair("b", List(<<Num(2), Num(3)>>))>>)
    [] text = "{\"outputs\": \"\"}" -> Dict(<<Pair("outputs", Str(""))>>)
    [] OTHER -> Invalid

Returned(status_code, text) == [kind |-> "response", status_code |-> status_code, text |-> text]
Raised(cls) == [kind |-> "raise", cls |-> cls]

\* The ways the call of line 129 can end.
FlowOutcomes ==
  { Returned(s, b) : s \in StatusCodes, b \in BodyTexts } \cup { Raised(c) : c \in PostExceptions }

(***************************************************************************)
(* The handler of POST /analyze, lines 110-167.                            *)
(***************************************************************************)
\* A payload whose session_id is one value kept for the whole process.
PayloadSharedSession(url, session_id) ==
  [ input_value |-> url, input_type |-> "chat", output_type |-> "chat",
    session_id |-> "uuid-1", output_component |-> "", tweaks |-> None ]

\* Lines 113-120: the payload sent to the Flow.
Payload(url, session_id) ==
  [ input_value |-> url, input_type |-> "chat", output_type |-> "chat",
    session_id |-> session_id, output_component |-> "", tweaks |-> None ]

\* Lines 121-125.
Headers ==
  [ content_type |-> "application/json", user_agent |-> "TrueEye-Railway/1.0",
    x_api_key |-> API_KEY ]

\* A call that is sent a second time, as a retrying caller would.
PostWithRetry(log, r, url, session_id) ==
  LET msg == [ req |-> r, url |-> FLOW_API_URL,
               json |-> [ input_value |-> url, input_type |-> "chat",
                          output_type |-> "chat", session_id |-> session_id,
                          output_component |-> "", tweaks |-> None ],
               headers |-> [ content_type |-> "application/json",
                             user_agent |-> "TrueEye-Railway/1.0",
                             x_api_key |-> API_KEY ],
               timeout |-> FlowTimeout ]
  IN Append(Append(log, msg), msg)

\* Line 129, requests.post: one request on the wire, appended to the log of
\* what the Flow was sent.
Post(log, r, url, session_id) ==
  Append(log, [ req |-> r, url |-> FLOW_API_URL, json |-> Payload(url, session_id),
                headers |-> Headers, timeout |-> FlowTimeout ])

\* A status check that raises for 5xx only.
RaisesForServerErrorOnly(status_code) == 500 <= status_code /\ status_code < 600

\* Line 131, resp.raise_for_status(): HTTPError for 4xx and 5xx, nothing else.
RaisesForStatus(status_code) == 400 <= status_code /\ status_code < 600

\* The class of the exception resp.json() raises on an undecodable body.
JsonErrorClass(version) ==
  IF version = "from_2_27" THEN "RequestsJSONDecodeError" ELSE "ValueError"

FallbackText == "No se pudo extraer un texto claro de la respuesta."

\* The fallback substituted only for None, not for the empty string.
ResultTextUnlessNone(extracted) ==
  IF extracted.t = "str" THEN extracted.s
  ELSE "No se pudo extraer un texto claro de la respuesta."

\* Line 135: extracted or fallback.
ResultText(extracted) == IF Truthy(extracted) THEN extracted.s ELSE FallbackText

JsonResponse(status_code, result, success, error) ==
  [ status_code |-> status_code, json |-> TRUE,
    body |-> [result |-> result, success |-> success, error |-> error] ]

\* What the host answers when a handler lets an exception escape.
UnhandledResponse ==
  [ status_code |-> 500, json |-> FALSE, body |-> [text |-> "Internal Server Error"] ]

\* Lines 127-137: the try block.  It ends in a return or in an exception.
TryBlock(outcome, version) ==
  IF outcome.kind = "raise"
  THEN [raised |-> TRUE, cls |-> outcome.cls, msg |-> Message(outcome.cls)]
  ELSE IF RaisesForStatus(outcome.status_code)
  THEN [raised |-> TRUE, cls |-> "HTTPError", response |-> outcome]
  ELSE IF ParseJson(outcome.text) = Invalid
  THEN [raised |-> TRUE, cls |-> JsonErrorClass(version),
        msg |-> Message(JsonErrorClass(version))]
  ELSE [raised |-> FALSE,
        response |-> JsonResponse(200,
                       ResultText(extract_text_from_response(ParseJson(outcome.text))),
                       TRUE, None)]

\* The except clauses without the final catch-all.
ExceptClausesNoCatchAll == <<"Timeout", "HTTPError", "RequestException">>
\* The except clauses with the Timeout clause after the RequestException one.
ExceptClausesTimeoutLate == <<"HTTPError", "RequestException", "Timeout", "Exception">>

\* Lines 139, 146, 155, 162: the except clauses, in the order they are tried.
ExceptClauses == <<"Timeout", "HTTPError", "RequestException", "Exception">>

\* Lines 140-167: the body of the except clause for class clause.
ExceptBody(clause, e) ==
  CASE clause = "Timeout" ->
         JsonResponse(504, "Error: Timeout (el analisis tardo demasiado)", FALSE, Str("timeout"))
    [] clause = "HTTPError" ->
         JsonResponse(502, "Error HTTP al llamar al Flow: " \o e.response.text, FALSE,
                      Str("http_" \o ToString(e.response.status_code)))
    [] clause = "RequestException" ->
         JsonResponse(502, "Error de conexion con el Flow", FALSE, Str("connection"))
    [] clause = "Exception" ->
         JsonResponse(500, "Error inesperado: " \o e.msg, FALSE, Str("unknown"))

\* The first except clause that matches e handles it; with none, e escapes.
Handle(e) ==
  LET matching == { i \in 1..Len(ExceptClauses) : ExceptClauses[i] \in Ancestors(e.cls) } IN
  IF matching = {} THEN UnhandledResponse
  ELSE ExceptBody(ExceptClauses[CHOOSE i \in matching : \A j \in matching : i <= j], e)

\* Lines 127-167: what analyze returns once the call of line 129 has ended.
AnalyzeReturn(outcome, version) ==
  LET t == TryBlock(outcome, version) IN
  IF t.raised THEN Handle(t) ELSE t.response

\* Lines 173-178: what health_check returns.
HealthReturn ==
  [ status_code |-> 200, json |-> TRUE,
    body |-> [status |-> "healthy", flow_url |-> (FLOW_API_URL # ""),
              service |-> "TrueEye Reports"] ]

(***************************************************************************)
(* State.                                                                  *)
(***************************************************************************)
Reqs == 1..NumRequests
NoReq == 0
Urls == {"http://x", ""}
\* The values uuid.uuid4() can return: more than there are requests.
UUIDs == { "uuid-" \o ToString(i) : i \in 1..(NumRequests + 1) }

VARIABLES
  version,   \* the requests library generation this process imported
  kind,      \* per request: "none" before it is sent, "analyze" or "health"
  url,       \* per request: the url field of an AnalyzeRequest body
  pc,        \* per request: "idle", "queued", "in_flow" or "done"
  loop,      \* the request whose handler occupies the event loop, or NoReq
  issued,    \* the values uuid.uuid4() has returned so far
  sent,      \* the calls made to the Flow, in order
  delivered, \* the response most recently returned to a client
  data,      \* the argument of a call of _extract_text_from_response
  out        \* what that call returned, NotCalled before it

gateway == <<version, kind, url, pc, loop, issued, sent, delivered>>
vars == <<version, kind, url, pc, loop, issued, sent, delivered, data, out>>

NotCalled == [t |-> "notcalled"]
NoResponse == [req |-> NoReq]

GatewayInit ==
  /\ version \in RequestsVersions
  /\ kind = [r \in Reqs |-> "none"]
  /\ url = [r \in Reqs |-> ""]
  /\ pc = [r \in Reqs |-> "idle"]
  /\ loop = NoReq
  /\ issued = {}
  /\ sent = <<>>
  /\ delivered = NoResponse

Init ==
  /\ GatewayInit
  /\ data = None
  /\ out = NotCalled

\* A client sends POST /analyze with a valid body; the host accepts the
\* connection and queues the request for the event loop.
ClientPostsAnalyze(r) ==
  /\ pc[r] = "idle"
  /\ \E u \in Urls : url' = [url EXCEPT ![r] = u]
  /\ kind' = [kind EXCEPT ![r] = "analyze"]
  /\ pc' = [pc EXCEPT ![r] = "queued"]
  /\ UNCHANGED <<version, loop, issued, sent, delivered, data, out>>

\* A client sends GET /health.
ClientGetsHealth(r) ==
  /\ pc[r] = "idle"
  /\ kind' = [kind EXCEPT ![r] = "health"]
  /\ pc' = [pc EXCEPT ![r] = "queued"]
  /\ UNCHANGED <<version, url, loop, issued, sent, delivered, data, out>>

\* Lines 110-129: the event loop starts the coroutine analyze, which runs
\* without an await up to the blocking requests.post and stays in it.
AnalyzeCallsFlow(r) ==
  /\ loop = NoReq
  /\ pc[r] = "queued"
  /\ kind[r] = "analyze"
  /\ \E session_id \in UUIDs \ issued :
       /\ issued' = issued \cup {session_id}
       /\ sent' = Post(sent, r, url[r], session_id)
  /\ loop' = r
  /\ pc' = [pc EXCEPT ![r] = "in_flow"]
  /\ UNCHANGED <<version, kind, url, delivered, data, out>>

\* Lines 129-167: requests.post ends, analyze runs to its return, and the
\* event loop is free again.
AnalyzeReturns(r) ==
  /\ pc[r] = "in_flow"
  /\ loop = r
  /\ \E outcome \in FlowOutcomes :
       delivered' = [ req |-> r, endpoint |-> "analyze", flow |-> outcome,
                      response |-> AnalyzeReturn(outcome, version) ]
  /\ loop' = NoReq
  /\ pc' = [pc EXCEPT ![r] = "done"]
  /\ UNCHANGED <<version, kind, url, issued, sent, data, out>>

\* Lines 172-178: the event loop runs the coroutine health_check.
HealthCheck(r) ==
  /\ loop = NoReq
  /\ pc[r] = "queued"
  /\ kind[r] = "health"
  /\ delivered' = [req |-> r, endpoint |-> "health", response |-> HealthReturn]
  /\ pc' = [pc EXCEPT ![r] = "done"]
  /\ UNCHANGED <<version, kind, url, loop, issued, sent, data, out>>

Next ==
  \E r \in Reqs :
    \/ ClientPostsAnalyze(r)
    \/ ClientGetsHealth(r)
    \/ AnalyzeCallsFlow(r)
    \/ AnalyzeReturns(r)
    \/ HealthCheck(r)

Spec == Init /\ [][Next]_vars

(***************************************************************************)
(* The extractor on its own: any bounded JSON value, then one call.        *)
(***************************************************************************)
ExtractInit ==
  /\ GatewayInit
  /\ \/ data \in Examples
     \/ IsJsonInput(data)
  /\ out = NotCalled

ExtractCall ==
  /\ out = NotCalled
  /\ out' = extract_text_from_response(data)
  /\ UNCHANGED <<data, gateway>>

ExtractNext == ExtractCall

ExtractSpec == ExtractInit /\ [][ExtractNext]_vars

(***************************************************************************)
(* Properties of the gateway, checked under Spec.                          *)
(***************************************************************************)
AnalyzeDelivered == delivered.req # NoReq /\ delivered.endpoint = "analyze"
FlowAnswered == AnalyzeDelivered /\ delivered.flow.kind = "response"
Is2xx(status_code) == 200 <= status_code /\ status_code < 300

\* The outcome classes a response falls in.
OutcomeClasses(resp) ==
  { c \in {"success", "timeout", "http", "connection", "unknown"} :
      CASE c = "success" ->
             resp.status_code = 200 /\ resp.body.success = TRUE /\ resp.body.error = None
        [] c = "timeout" ->
             resp.status_code = 504 /\ resp.body.success = FALSE
               /\ resp.body.error = Str("timeout")
        [] c = "http" ->
             resp.status_code = 502 /\ resp.body.success = FALSE
               /\ \E code \in 100..999 : resp.body.error = Str("http_" \o ToString(code))
        [] c = "connection" ->
             resp.status_code = 502 /\ resp.body.success = FALSE
               /\ resp.body.error = Str("connection")
        [] c = "unknown" ->
             resp.status_code = 500 /\ resp.body.success = FALSE
               /\ resp.body.error = Str("unknown") }

\* C1: every response of POST /analyze is a JSON body with exactly the fields
\* result, success and error, falls in exactly one of the five outcome
\* classes (200 success, 504 timeout, 502 http_<code>, 502 connection,
\* 500 unknown), and has success true iff error is null and the status 200.
C1_FiveOutcomes ==
  AnalyzeDelivered =>
    LET resp == delivered.response IN
    /\ resp.json
    /\ DOMAIN resp.body = {"result", "success", "error"}
    /\ Cardinality(OutcomeClasses(resp)) = 1
    /\ resp.body.success = TRUE <=> (resp.body.error = None /\ resp.status_code = 200)

\* A 2xx answer whose body is not JSON has been answered with a structured
\* error.
C1_Witness ==
  /\ FlowAnswered
  /\ Is2xx(delivered.flow.status_code)
  /\ ParseJson(delivered.flow.text) = Invalid
  /\ delivered.response.json
  /\ delivered.response.body.success = FALSE

\* C2: while one /analyze request is suspended in its call to the Flow, any
\* other request the host has accepted can be processed.
C2_PendingCallBlocksNobody ==
  \A r1, r2 \in Reqs :
    (pc[r1] = "in_flow" /\ pc[r2] = "queued")
      => ENABLED (AnalyzeCallsFlow(r2) \/ HealthCheck(r2))

\* The 502 response the claim C3 describes for an upstream status.
IsUpstreamErrorResponse(resp, flow) ==
  /\ resp.status_code = 502
  /\ resp.json
  /\ resp.body.success = FALSE
  /\ resp.body.error = Str("http_" \o ToString(flow.status_code))
  /\ resp.body.result = "Error HTTP al llamar al Flow: " \o flow.text

\* C3 as stated: every non-2xx answer of the Flow (1xx, 3xx, 4xx, 5xx) is
\* answered 502 with error http_<status> and the upstream body in result.
C3_AnyNon2xxIs502 ==
  (FlowAnswered /\ ~Is2xx(delivered.flow.status_code))
    => IsUpstreamErrorResponse(delivered.response, delivered.flow)

\* C3 as amended: every 4xx or 5xx answer of the Flow is answered 502 with
\* error http_<status> and the upstream body in result.
C3_ErrorStatusIs502 ==
  (FlowAnswered /\ delivered.flow.status_code \in 400..599)
    => IsUpstreamErrorResponse(delivered.response, delivered.flow)

C3_Witness ==
  /\ FlowAnswered
  /\ delivered.flow.status_code = 404
  /\ delivered.response.status_code = 502

\* C4: a 2xx answer whose body is not valid JSON is answered 500 with error
\* "unknown".
C4_MalformedJsonIsUnknown ==
  (FlowAnswered /\ Is2xx(delivered.flow.status_code)
     /\ ParseJson(delivered.flow.text) = Invalid)
    => /\ delivered.response.status_code = 500
       /\ delivered.response.body.success = FALSE
       /\ delivered.response.body.error = Str("unknown")

\* C5: no two calls to the Flow carry the same session_id, and every call
\* carries an identifier uuid4 generated for it.
C5_DistinctSessionIds ==
  /\ \A i, j \in 1..Len(sent) :
       i # j => /\ sent[i].req # sent[j].req
                /\ sent[i].json.session_id # sent[j].json.session_id
  /\ \A i \in 1..Len(sent) : sent[i].json.session_id \in issued
  /\ Cardinality(issued) = Len(sent)

\* Two requests have called the Flow, the second accepted while the first
\* was in its call.
C5_Witness ==
  /\ Len(sent) = 2
  /\ \E r \in Reqs : pc[r] = "in_flow"
  /\ \E r \in Reqs : pc[r] = "done" /\ kind[r] = "analyze"

\* C8: a 2xx answer with a JSON body is answered 200 with success true and
\* error null; result is the extractor's output when that is a non-empty
\* string and the fallback text otherwise, and is never empty.
C8_SuccessResult ==
  (FlowAnswered /\ Is2xx(delivered.flow.status_code)
     /\ ParseJson(delivered.flow.text) # Invalid)
    => LET resp == delivered.response
           extracted == extract_text_from_response(ParseJson(delivered.flow.text))
       IN /\ resp.status_code = 200
          /\ resp.json
          /\ resp.body.success = TRUE
          /\ resp.body.error = None
          /\ resp.body.result # ""
          /\ resp.body.result =
               IF extracted.t = "str" /\ extracted.s # "" THEN extracted.s
               ELSE "No se pudo extraer un texto claro de la respuesta."

\* The extractor returned the empty string and the fallback text was sent.
C8_Witness ==
  /\ FlowAnswered
  /\ delivered.flow.status_code = 201
  /\ extract_text_from_response(ParseJson(delivered.flow.text)) = Str("")
  /\ delivered.response.body.result = FallbackText

\* C9: a failure of the Flow call that is a timeout, a connect timeout (which
\* is also a connection error) included, is answered 504 with error
\* "timeout", never 502 with error "connection".
C9_TimeoutFirst ==
  (AnalyzeDelivered /\ delivered.flow.kind = "raise"
     /\ delivered.flow.cls \in {"ConnectTimeout", "ReadTimeout"})
    => /\ delivered.response.status_code = 504
       /\ delivered.response.body.success = FALSE
       /\ delivered.response.body.error = Str("timeout")

C9_Witness ==
  /\ AnalyzeDelivered
  /\ delivered.flow = Raised("ConnectTimeout")
  /\ delivered.response.status_code = 504

\* The number of calls to the Flow made for request r.
CallsFor(r) == Cardinality({ i \in 1..Len(sent) : sent[i].req = r })

\* C10: a request calls the Flow at most once: exactly once from the moment
\* analyze reaches its call, failed or not, and never for a request that has
\* not reached it; a response is returned right after that one call.
C10_SingleCall ==
  /\ \A r \in Reqs :
       CallsFor(r) = IF kind[r] = "analyze" /\ pc[r] \in {"in_flow", "done"} THEN 1 ELSE 0
  /\ AnalyzeDelivered => pc[delivered.req] = "done" /\ CallsFor(delivered.req) = 1

\* A failed call has been answered, and the Flow was called once for it.
C10_Witness ==
  /\ AnalyzeDelivered
  /\ delivered.response.body.success = FALSE
  /\ CallsFor(delivered.req) = 1

(***************************************************************************)
(* Properties of the extractor, checked under ExtractSpec.                 *)
(***************************************************************************)
\* The order of the candidate keys as documented.
DocumentedOrder == <<"outputs", "result", "message", "text", "content">>
DocumentedKeys == { DocumentedOrder[i] : i \in 1..Len(DocumentedOrder) }

\* The value of d under key k, None when d has no such key.
ValueUnder(d, k) ==
  IF \E i \in 1..Len(d.pairs) : d.pairs[i].k = k
  THEN d.pairs[CHOOSE i \in 1..Len(d.pairs) : d.pairs[i].k = k].v
  ELSE None

\* Candidate key k of d yields a result: its value is a string, or is
\* non-null and the extractor finds a non-empty text in it.
Yields(d, k) ==
  LET v == ValueUnder(d, k) IN
  \/ v.t = "str"
  \/ v # None /\ Truthy(extract_text_from_response(v))

Yielding(d) == { i \in 1..Len(DocumentedOrder) : Yields(d, DocumentedOrder[i]) }

\* What the earliest yielding candidate key of d gives.
WinnerResult(d) ==
  LET w == CHOOSE i \in Yielding(d) : \A j \in Yielding(d) : i <= j
      v == ValueUnder(d, DocumentedOrder[w])
  IN IF v.t = "str" THEN v ELSE extract_text_from_response(v)

\* The mappings with the pairs of d in every order.
Reorderings(d) ==
  LET n == Len(d.pairs) IN
  { Dict([i \in 1..n |-> d.pairs[p[i]]]) :
      p \in { q \in [1..n -> 1..n] : \A i, j \in 1..n : q[i] = q[j] => i = j } }

\* d without its pairs under other keys than the candidate keys.
OnlyCandidates(d) ==
  LET IsCandidate(pair) == pair.k \in DocumentedKeys IN Dict(SelectSeq(d.pairs, IsCandidate))

\* C6: for a mapping, the extractor returns what the earliest key, in the
\* order outputs, result, message, text, content, that yields a result
\* gives (a string value as is, else the recursion's non-empty result),
\* whatever the mapping's own key order and its other keys.
C6_PriorityOrder ==
  (out # NotCalled /\ data.t = "dict" /\ Yielding(data) # {})
    => /\ out = WinnerResult(data)
       /\ \A d \in Reorderings(data) : extract_text_from_response(d) = out
       /\ extract_text_from_response(OnlyCandidates(data)) = out

\* Two candidate keys hold different strings, the later one in the
\* documented order comes first in the mapping, and the earlier one won.
C6_Witness ==
  /\ out # NotCalled
  /\ data.t = "dict"
  /\ Len(data.pairs) = 2
  /\ data.pairs[1].k = "text"
  /\ data.pairs[2].k = "outputs"
  /\ data.pairs[1].v = Str("a")
  /\ data.pairs[2].v = Str("b")
  /\ out = Str("b")

RECURSIVE FirstNonEmpty(_, _)
\* The first non-empty result of the extractor over vals from the i-th on,
\* None when there is none.
FirstNonEmpty(vals, i) ==
  IF i > Len(vals) THEN None
  ELSE IF Truthy(extract_text_from_response(vals[i]))
       THEN extract_text_from_response(vals[i])
       ELSE FirstNonEmpty(vals, i + 1)

\* The values of d in its own order: all of them, and those under keys that
\* are not candidate keys.
AllValues(d) == [i \in 1..Len(d.pairs) |-> d.pairs[i].v]
RemainingValues(d) ==
  LET NotCandidate(pair) == pair.k \notin DocumentedKeys
      rest == SelectSeq(d.pairs, NotCandidate)
  IN [i \in 1..Len(rest) |-> rest[i].v]

\* C7: when no candidate key of a mapping yields a result, the extractor
\* returns the first non-empty result over the mapping's remaining values
\* in their own order, nothing when there is none, and a scan over all the
\* values gives the same.
C7_FallbackScan ==
  (out # NotCalled /\ data.t = "dict" /\ Yielding(data) = {})
    => /\ out = FirstNonEmpty(RemainingValues(data), 1)
       /\ out = FirstNonEmpty(AllValues(data), 1)

\* A candidate key is present and yields nothing, and the text came from
\* the second of two other keys, the first holding the empty string.
C7_Witness ==
  /\ out = Str("b")
  /\ data.t = "dict"
  /\ Len(data.pairs) = 2
  /\ data.pairs[1].k = "foo"
  /\ data.pairs[1].v = Str("")
  /\ data.pairs[2].k = "bar"

=============================================================================
